---------------------------- MODULE Spec2Model ----------------------------
(***************************************************************************)
(* Driver attention monitor (webapp): the simulation / fusion tick of      *)
(* DriverMonitorInteractive, the alert effect of AlertSystem, the          *)
(* environment controls and the prediction callback of CameraFeed.         *)
(*                                                                         *)
(* Scores are whole points (0..100): every product with a fraction is      *)
(* taken in integer arithmetic and rounded down.  Confidences and signal   *)
(* scores (0..1 in the code) are percentages.  Times are milliseconds.     *)
(* Math.random() is a choice from a small set of sample values.            *)
(***************************************************************************)
EXTENDS Integers, Sequences, FiniteSets, TLC

(***************************************************************************)
(* Program constants.                                                      *)
(***************************************************************************)
TickMs == 700
BeepCooldownMs == 6000
SpeechCooldownMs == 12000
HighSpeed == 50
AlertThreshold == 40
InitialAttention == 95
InitialSpeed == 40
ControlsInitialSpeed == 45
SendFrameMs == 800

(***************************************************************************)
(* Bounds of the model.                                                    *)
(***************************************************************************)
MaxTicks == 6
MaxEvents == 2

\* The clock advances in tick periods: events happen at the instants at
\* which the interval can be due.
Quantum == TickMs
\* Date.now() at page load: any instant later than both cooldowns, so that
\* the refs initialised to 0 count as expired.
StartMs == SpeechCooldownMs + TickMs
EndMs == StartMs + MaxTicks * TickMs

Abs(x) == IF x < 0 THEN -x ELSE x
Min(a, b) == IF a < b THEN a ELSE b
Max(a, b) == IF a > b THEN a ELSE b

clamp(v, a, b) == Max(a, Min(b, v))

(***************************************************************************)
(* Samples of Math.random() terms.                                         *)
(***************************************************************************)
\* (Math.random() - 0.5) * 6, in [-3, 3)
ScoreNoise == {-3, 2}
\* (Math.random() - 0.5) * 2, in [-1, 1)
SteerNoise == {0}
\* (Math.random() - 0.5) * 1 added to the speed: less than half a unit, so
\* the speed keeps its whole value; what is sampled is whether the value
\* held in the state moved (it does not at a clamp bound).
SpeedJitterMoves == {FALSE, TRUE}

(***************************************************************************)
(* Values the user can give the environment controls.                      *)
(***************************************************************************)
ToggleIds == {"nightMode", "glasses", "potholes", "highway", "drowsiness"}
ToggleInputs == {"drowsiness"}
SpeedInputs == {0, 90}
AudioModes == {"beep", "voice", "off"}

(***************************************************************************)
(* Backend predictions ({...json.result, sensors}).  NoScore stands for a  *)
(* fusion object without a numeric alertness_score; hasFusion = FALSE for  *)
(* a result without a fusion object.                                       *)
(***************************************************************************)
Null == [kind |-> "null"]
NoScore == -1000

Prediction(hasFusion, score, level, sigDrowsy, infDrowsy, infDistr, infVoice) ==
    [kind |-> "prediction", hasFusion |-> hasFusion, alertness_score |-> score,
     alert_level |-> level, sigDrowsiness |-> sigDrowsy, sigLane |-> 0,
     infDrowsiness |-> infDrowsy, infDistraction |-> infDistr, infVoice |-> infVoice,
     night |-> FALSE, vibration |-> FALSE, sunglasses |-> FALSE]

Predictions ==
    { Prediction(TRUE, 71, "normal", 10, 0, 0, 0),
      Prediction(TRUE, 150, "normal", 0, 0, 0, 0),
      Prediction(TRUE, -20, "severe", 90, 90, 0, 0),
      Prediction(TRUE, 35, "moderate", 40, 0, 65, 0),
      Prediction(FALSE, NoScore, "none", 0, 0, 0, 75) }

VARIABLES
    now,              \* Date.now()
    simAt,            \* instant at which the interval held in simRef fires next
    attention,        \* useState attention: the published score
    speed,            \* useState speed
    steering,         \* useState steering
    micro,            \* useState micro
    env,              \* useState env, as reported by EnvironmentControls
    lastPrediction,   \* useState lastPrediction
    predAt,           \* instant of the last onPrediction call (0: none yet)
    audioMode,        \* useState audioMode
    lastSpeedRef,     \* useRef
    lastSteerRef,     \* useRef
    lastAlertRef,     \* useRef: instant of the last beep
    lastSpeechRef,    \* useRef: instant of the last spoken alert
    newScore,         \* the last tick's newScore, before the final clamp
    backendScore,     \* the last tick's backendScore (NoScore: no blend)
    tone,             \* frequency of the last oscillator started (0: none)
    utter,            \* message of the last utterance spoken
    alerts,           \* AlertSystem: useState alerts, newest first
    nEvents,          \* predictions delivered and controls changed so far
    fConfig,          \* fusion: the FusionConfig weights
    fSignals,         \* fusion: the latest Signal value per modality
    fStale,           \* fusion: the stale modality
    fOut,             \* fusion: the risks computed
    reqPath,          \* middleware: request.nextUrl.pathname
    getUserResult,    \* middleware: outcome of supabase.auth.getUser()
    profileResult,    \* middleware: outcome of the profile lookup
    response,         \* middleware: what updateSession returned
    privacy,          \* CameraFeed: the isPrivacyMode prop
    isSimulated,      \* CameraFeed: useState isSimulated
    gumPending,       \* CameraFeed: getUserMedia calls not yet settled
    streams,          \* CameraFeed: the media streams opened, live or stopped
    srcObject,        \* CameraFeed: the stream of the video element (0: none)
    posted,           \* CameraFeed: frames posted to the backend
    postedInPrivacy,  \* CameraFeed: a frame was posted with privacy mode on
    nToggles,         \* CameraFeed: privacy toggles so far
    inflight,         \* CameraFeed: frames posted whose response has not arrived
    heldSeq,          \* the frame whose prediction onPrediction handed over last (0: none)
    consents,         \* consent setup: useState consents
    currentStep,      \* consent setup: useState currentStep
    userId,           \* consent setup: useState userId ("null" until loaded)
    savedConsents,    \* profiles row: the consents written ("none": not written)
    savedBy,          \* the action that wrote the consents
    navigated,        \* the page the setup navigated to ("none": still on the setup)
    gaugeScore,       \* AttentionGauge: the score prop, in 1/Scale points
    animatedScore,    \* AttentionGauge: useState animatedScore, in 1/Scale points
    gaugeSteps,       \* interval callbacks run since the score prop last changed (capped)
    nScoreChanges,    \* changes of the score prop so far
    v1Attention,      \* run-once monitor: useState attention
    v1Env,            \* run-once monitor: useState env
    v1Ticks,          \* run-once monitor: interval callbacks run
    v1Toggles,        \* run-once monitor: settings toggled by the user
    signupForm,       \* the signup page submitted: "fleet", "driver" or "none"
    signupPhase,      \* position of handleSubmit: idle, signUp, insert or finished
    signupError,      \* signup page: useState error
    authUsers,        \* ids of the auth accounts created
    profileRows,      \* rows of the profiles table: <<id, role>>
    nSignups,         \* signup attempts so far
    trend,            \* trend list: useState trend (entries timestamp, score, time)
    trendNow,         \* trend list: Date.now() at the last callback, in ms
    trendScore,       \* trend list: the score published by the last callback
    nTrendTicks,      \* trend list: interval callbacks run
    signinForm,       \* the sign-in page submitted: "driver", "fleet" or "none"
    signinPhase,      \* position of the sign-in handleSubmit: idle, password, lookup, signOut or finished
    accountRole,      \* role of the profile row of the account: USER, EMPLOYEE or none
    session,          \* whether the browser holds an authenticated session
    signinError,      \* sign-in page: whether an error is shown
    signinGoesTo,     \* the route the sign-in page pushed ("none": still on the page)
    nSignins,         \* sign-in attempts so far
    regEmployeeId,    \* registration: the employee id each registrant submits
    regPhase,         \* registration: idle, signup or route (check passed, write awaited), registered, rejected or failed
    regRows           \* profiles table: rows <<user, employee_id>> written by the registrations

monitorVars == <<now, simAt, attention, speed, steering, micro, env,
                 lastPrediction, predAt, audioMode, lastSpeedRef,
                 lastSteerRef, lastAlertRef, lastSpeechRef, newScore,
                 backendScore, tone, utter, alerts, nEvents>>
fusionVars == <<fConfig, fSignals, fStale, fOut>>
authVars == <<reqPath, getUserResult, profileResult, response>>
cameraVars == <<privacy, isSimulated, gumPending, streams, srcObject,
                posted, postedInPrivacy, nToggles, inflight, heldSeq>>
consentVars == <<consents, currentStep, userId, savedConsents, savedBy,
                 navigated>>
gaugeVars == <<gaugeScore, animatedScore, gaugeSteps, nScoreChanges>>
loopVars == <<v1Attention, v1Env, v1Ticks, v1Toggles>>
signupVars == <<signupForm, signupPhase, signupError, authUsers,
                profileRows, nSignups>>
trendVars == <<trend, trendNow, trendScore, nTrendTicks>>
signinVars == <<signinForm, signinPhase, accountRole, session, signinError,
                signinGoesTo, nSignins>>
registerVars == <<regEmployeeId, regPhase, regRows>>
vars == <<monitorVars, fusionVars, authVars, cameraVars, consentVars,
          gaugeVars, loopVars, signupVars, trendVars, signinVars,
          registerVars>>

\* What the actions of one component leave as it is: the other components.
exceptMonitor == <<fusionVars, authVars, cameraVars, consentVars, gaugeVars,
                   loopVars, signupVars, trendVars, signinVars, registerVars>>
exceptFusion == <<monitorVars, authVars, cameraVars, consentVars, gaugeVars,
                  loopVars, signupVars, trendVars, signinVars, registerVars>>
exceptAuth == <<monitorVars, fusionVars, cameraVars, consentVars, gaugeVars,
                loopVars, signupVars, trendVars, signinVars, registerVars>>
exceptCamera == <<monitorVars, fusionVars, authVars, consentVars, gaugeVars,
                  loopVars, signupVars, trendVars, signinVars, registerVars>>
exceptConsent == <<monitorVars, fusionVars, authVars, cameraVars, gaugeVars,
                   loopVars, signupVars, trendVars, signinVars, registerVars>>
exceptGauge == <<monitorVars, fusionVars, authVars, cameraVars, consentVars,
                 loopVars, signupVars, trendVars, signinVars, registerVars>>
exceptLoop == <<monitorVars, fusionVars, authVars, cameraVars, consentVars,
                gaugeVars, signupVars, trendVars, signinVars, registerVars>>
exceptSignup == <<monitorVars, fusionVars, authVars, cameraVars,
                  consentVars, gaugeVars, loopVars, trendVars, signinVars,
                  registerVars>>
exceptTrend == <<monitorVars, fusionVars, authVars, cameraVars, consentVars,
                 gaugeVars, loopVars, signupVars, signinVars, registerVars>>
exceptSignin == <<monitorVars, fusionVars, authVars, cameraVars,
                  consentVars, gaugeVars, loopVars, signupVars, trendVars,
                  registerVars>>
exceptRegister == <<monitorVars, fusionVars, authVars, cameraVars,
                    consentVars, gaugeVars, loopVars, signupVars, trendVars,
                    signinVars>>

(***************************************************************************)
(* EnvironmentControls: the settings map handed to onSettingsChange.  The  *)
(* lane deviation slider (-2..2 m, step 0.1) is held in tenths of a metre. *)
(***************************************************************************)
InitialEnv ==
    [nightMode |-> FALSE, glasses |-> FALSE, potholes |-> FALSE,
     highway |-> FALSE, drowsiness |-> FALSE,
     speed |-> ControlsInitialSpeed, steeringAngle |-> 0, laneDeviation |-> 0]

(***************************************************************************)
(* DriverMonitorInteractive: the interval callback.                        *)
(***************************************************************************)
HasBackendScore(p) == p # Null /\ p.hasFusion /\ p.alertness_score # NoScore

\* env.steeringAngle is a number from the mount of EnvironmentControls on,
\* so the first branch of the steering choice is the one taken.
NewSteer(sn) == clamp(env.steeringAngle + sn, -45, 45)

NightPenalty ==
    IF env.nightMode \/ (lastPrediction # Null /\ lastPrediction.night)
    THEN 8 + (IF speed > 80 THEN 4 ELSE 0) ELSE 0

DrowsinessPenalty ==
    IF lastPrediction # Null /\ lastPrediction.infDrowsiness > 60
    THEN (lastPrediction.infDrowsiness * 25) \div 100
    ELSE IF lastPrediction # Null /\ lastPrediction.sigDrowsiness > 50
    THEN (lastPrediction.sigDrowsiness * 20) \div 100
    ELSE IF env.drowsiness THEN 15 ELSE 0

VibrationPenalty ==
    IF env.potholes \/ (lastPrediction # Null /\ lastPrediction.vibration)
    THEN 6 + (IF speed > 60 THEN 3 ELSE 0) ELSE 0

HighwayPenalty ==
    IF env.highway /\ speed > 60 THEN 3 + Min(8, (speed - 60) \div 10) ELSE 0

GlassesPenalty ==
    IF env.glasses \/ (lastPrediction # Null /\ lastPrediction.sunglasses)
    THEN 2 ELSE 0

SteerPenalty(newSteer) == (Abs(newSteer) * 12) \div 45

SpeedPenalty(currentSpeed) == (Min(currentSpeed, 140) * 12) \div 140

SpeedDeltaPenalty(currentSpeed) ==
    LET speedDelta == Abs(currentSpeed - lastSpeedRef)
    IN  IF speedDelta > 8 THEN Min(20, (speedDelta * 18) \div 10) ELSE 0

SteerDeltaPenalty(newSteer) ==
    LET steerDelta == Abs(newSteer - lastSteerRef)
    IN  IF steerDelta > 10 THEN Min(18, (steerDelta * 9) \div 10) ELSE 0

\* laneScore = |laneDeviation| / 2 and the penalty is laneScore * 100 * 0.18.
LanePenalty ==
    IF Abs(env.laneDeviation) > 1
    THEN Min(25, (Abs(env.laneDeviation) * 9) \div 10) ELSE 0

\* The simulated score before the backend blend.
SimulatedScore(noise, newSteer, microEvent) ==
    attention + noise - NightPenalty - DrowsinessPenalty - VibrationPenalty
      - HighwayPenalty - GlassesPenalty - SteerPenalty(newSteer)
      - SpeedPenalty(env.speed) - SpeedDeltaPenalty(env.speed)
      - SteerDeltaPenalty(newSteer) - LanePenalty
      - (IF microEvent THEN 5 ELSE 0)

BlendedScore(score) ==
    IF HasBackendScore(lastPrediction)
    THEN (clamp(lastPrediction.alertness_score, 0, 100) * 92 + score * 8) \div 100
    ELSE score

\* const clamped = clamp(score, 0, 100)
PublishedUnclamped(score) == score
Published(score) == clamp(score, 0, 100)

(***************************************************************************)
(* AlertSystem: the alert effect.                                          *)
(***************************************************************************)
normalizeScore(v) == IF v = NoScore THEN 0 ELSE clamp(v, 0, 100)

ConfidenceSeverity(c) == IF c > 85 THEN "high" ELSE IF c > 70 THEN "medium" ELSE "low"

ScoreSeverity(currentScore) ==
    IF currentScore < 20 THEN "high" ELSE IF currentScore < 30 THEN "medium" ELSE "low"

Alert(prefix, type, severity, spd) ==
    [id |-> prefix, type |-> type, severity |-> severity, timestamp |-> now,
     speed |-> spd]

\* setAlerts(prev => [newAlert, ...prev.slice(0, 4)])
Push(newAlert, prev) == <<newAlert>> \o SubSeq(prev, 1, Min(4, Len(prev)))

AlertEffect(currentScore, spd, p, prev) ==
    IF p # Null /\ p.hasFusion
       /\ (p.alert_level = "critical" \/ normalizeScore(p.alertness_score) < 20)
    THEN Push(Alert("fusion-alert", "voice", "high", spd), prev)
    ELSE IF p # Null /\ p.infDrowsiness > 60
    THEN Push(Alert("drowsy", "visual", ConfidenceSeverity(p.infDrowsiness), spd), prev)
    ELSE IF p # Null /\ p.infDistraction > 60
    THEN Push(Alert("distr", "visual", ConfidenceSeverity(p.infDistraction), spd), prev)
    ELSE IF p # Null /\ p.infVoice > 60
    THEN Push(Alert("voice", "voice", ConfidenceSeverity(p.infVoice), spd), prev)
    ELSE IF currentScore < AlertThreshold
    THEN Push(Alert("alert", IF spd > HighSpeed THEN "visual" ELSE "voice",
                    ScoreSeverity(currentScore), spd), prev)
    ELSE prev

(***************************************************************************)
(* The state after mount: EnvironmentControls has reported its settings.   *)
(***************************************************************************)
InitMonitor ==
    /\ now = StartMs
    /\ simAt = StartMs + TickMs
    /\ attention = InitialAttention
    /\ speed = InitialSpeed
    /\ steering = 0
    /\ micro = FALSE
    /\ env = InitialEnv
    /\ lastPrediction = Null
    /\ predAt = 0
    /\ audioMode = "voice"
    /\ lastSpeedRef = InitialSpeed
    /\ lastSteerRef = 0
    /\ lastAlertRef = 0
    /\ lastSpeechRef = 0
    /\ newScore = InitialAttention
    /\ backendScore = NoScore
    /\ tone = 0
    /\ utter = "none"
    /\ alerts = <<>>
    /\ nEvents = 0

\* The interval callback, and the effects its state updates trigger: the
\* tick effect sets the interval anew, the alert effect runs when
\* currentScore or speed changed.
Tick ==
    /\ now >= simAt
    /\ \E noise \in ScoreNoise, sn \in SteerNoise, moved \in SpeedJitterMoves :
        LET newSteer == NewSteer(sn)
            microEvent == FALSE
            currentSpeed == env.speed
            blended == BlendedScore(SimulatedScore(noise, newSteer, microEvent))
            clamped == Published(blended)
            beep == audioMode = "beep" /\ clamped < 75
                    /\ now - lastAlertRef > BeepCooldownMs
            speak == audioMode = "voice" /\ clamped < 70
                    /\ now - lastSpeechRef > SpeechCooldownMs
        IN  /\ steering' = newSteer
            /\ micro' = microEvent
            /\ newScore' = blended
            /\ backendScore' = IF HasBackendScore(lastPrediction)
                               THEN clamp(lastPrediction.alertness_score, 0, 100)
                               ELSE NoScore
            /\ attention' = clamped
            /\ tone' = IF beep THEN (IF clamped < 40 THEN 1200 ELSE 880) ELSE tone
            /\ lastAlertRef' = IF beep THEN now ELSE lastAlertRef
            /\ utter' = IF speak
                        THEN (IF clamped < 40 THEN "critical" ELSE "reduced")
                        ELSE utter
            /\ lastSpeechRef' = IF speak THEN now ELSE lastSpeechRef
            /\ speed' = currentSpeed
            /\ lastSpeedRef' = currentSpeed
            /\ lastSteerRef' = newSteer
            /\ alerts' = IF clamped # attention \/ currentSpeed # speed \/ moved
                         THEN AlertEffect(clamped, currentSpeed, lastPrediction, alerts)
                         ELSE alerts
    /\ simAt' = now + TickMs
    /\ UNCHANGED <<now, env, lastPrediction, predAt, audioMode, nEvents>>
    /\ UNCHANGED exceptMonitor

\* Time passes; a due interval fires before more time passes.
Advance ==
    /\ now < simAt
    /\ now + Quantum <= EndMs
    /\ now' = now + Quantum
    /\ UNCHANGED <<simAt, attention, speed, steering, micro, env, lastPrediction,
                   predAt, audioMode, lastSpeedRef, lastSteerRef, lastAlertRef,
                   lastSpeechRef, newScore, backendScore, tone, utter, alerts,
                   nEvents>>
    /\ UNCHANGED exceptMonitor

\* CameraFeed hands a backend result to onPrediction = setLastPrediction:
\* the tick effect sets the interval anew and the alert effect runs.
OnPrediction ==
    /\ nEvents < MaxEvents
    /\ \E p \in Predictions :
        /\ lastPrediction' = p
        /\ alerts' = AlertEffect(attention, speed, p, alerts)
    /\ nEvents' = nEvents + 1
    /\ predAt' = now
    /\ simAt' = now + TickMs
    /\ UNCHANGED <<now, attention, speed, steering, micro, env, audioMode,
                   lastSpeedRef, lastSteerRef, lastAlertRef, lastSpeechRef,
                   newScore, backendScore, tone, utter>>
    /\ UNCHANGED exceptMonitor

\* What a change of env leaves as it is.
EnvChangeKeeps ==
    /\ nEvents' = nEvents + 1
    /\ simAt' = now + TickMs
    /\ UNCHANGED <<now, attention, speed, steering, micro, lastPrediction, predAt,
                   audioMode, lastSpeedRef, lastSteerRef, lastAlertRef,
                   lastSpeechRef, newScore, backendScore, tone, utter, alerts>>
    /\ UNCHANGED exceptMonitor

\* EnvironmentControls.toggleSetting -> onSettingsChange = setEnv.
ToggleSetting ==
    /\ nEvents < MaxEvents
    /\ \E id \in ToggleInputs : env' = [env EXCEPT ![id] = ~env[id]]
    /\ EnvChangeKeeps

\* EnvironmentControls.handleSpeedChange -> onSettingsChange = setEnv.
HandleSpeedChange ==
    /\ nEvents < MaxEvents
    /\ \E v \in SpeedInputs : env' = [env EXCEPT !.speed = v]
    /\ EnvChangeKeeps

\* AlertSystem's audio mode select -> onAudioModeChange = setAudioMode.
SetAudioMode ==
    /\ nEvents < MaxEvents
    /\ \E m \in AudioModes \ {audioMode} : audioMode' = m
    /\ nEvents' = nEvents + 1
    /\ simAt' = now + TickMs
    /\ UNCHANGED <<now, attention, speed, steering, micro, env, lastPrediction,
                   predAt, lastSpeedRef, lastSteerRef, lastAlertRef,
                   lastSpeechRef, newScore, backendScore, tone, utter, alerts>>
    /\ UNCHANGED exceptMonitor

(***************************************************************************)
(* Alert levels of the documentation (Intervention Logic, Alert Level      *)
(* Mapping): 70-100 normal, 40-69 mild, 20-39 moderate, 0-19 severe.       *)
(***************************************************************************)
\* 0 normal, 1 mild, 2 moderate, 3 severe
LevelRank(score) ==
    IF score >= 70 THEN 0 ELSE IF score >= 40 THEN 1 ELSE IF score >= 20 THEN 2 ELSE 3

\* The severity of the intervention of a level: none, soft prompt (low),
\* warning (medium), urgent alert (high).
BandSeverity(score) ==
    CASE LevelRank(score) = 0 -> "none"
      [] LevelRank(score) = 1 -> "low"
      [] LevelRank(score) = 2 -> "medium"
      [] OTHER -> "high"

\* The staleness deadline: twice the interval at which CameraFeed sends a
\* frame and so receives a prediction.
StaleAfterMs == 2 * SendFrameMs

\* The backend delivered a prediction once and none since the deadline.
Degraded == lastPrediction # Null /\ now - predAt > StaleAfterMs

(***************************************************************************)
(* Fusion with weight renormalisation (fuse).  A configuration holds the   *)
(* weights as numerators w over one denominator den, the weights summing   *)
(* to den.  A signal value is a number of steps of 1 / ValueLevels.  A     *)
(* risk is a fraction <<numerator, denominator>>.                          *)
(***************************************************************************)
WeightUnits == 10
ValueLevels == 2

Modalities == {"drowsiness", "distraction", "voice"}

RECURSIVE SumOver(_, _)
SumOver(f, S) ==
    IF S = {} THEN 0
    ELSE LET m == CHOOSE x \in S : TRUE IN f[m] + SumOver(f, S \ {m})

\* Every weight set of positive steps of 1 / WeightUnits that sums to 1.
Configs ==
    { [w |-> w, den |-> WeightUnits] :
        w \in { f \in [Modalities -> 1..WeightUnits] :
                    SumOver(f, Modalities) = WeightUnits } }

\* The weight of a missing modality goes to the others in equal shares.
RenormalizeEqualShare(cfg, present) ==
    LET n == Cardinality(present)
        missing == cfg.den - SumOver(cfg.w, present)
    IN  [w |-> [m \in present |-> cfg.w[m] * n + missing], den |-> cfg.den * n]

\* Proportional redistribution: each remaining weight is divided by the sum
\* of the remaining weights.
Renormalize(cfg, present) ==
    [w |-> [m \in present |-> cfg.w[m]], den |-> SumOver(cfg.w, present)]

\* The configuration from which modality k has been removed entirely, its
\* weights again summing to 1.
ExcludeModality(cfg, k) ==
    LET rest == DOMAIN cfg.w \ {k}
    IN  [w |-> [m \in rest |-> cfg.w[m]], den |-> cfg.den - cfg.w[k]]

\* The risk as the plain mean of the values, the weights ignored.
FuseUnweighted(cfg, signals, stale, levels) ==
    LET present == DOMAIN cfg.w \ stale
    IN  <<SumOver([m \in present |-> signals[m]], present),
          Cardinality(present) * levels>>

\* risk = sum of weight_i * value_i over the modalities that are not stale,
\* clamped to [0, 1]; a value is a number of steps of 1 / levels.
FuseScaled(cfg, signals, stale, levels) ==
    LET present == DOMAIN cfg.w \ stale
        c == IF present = DOMAIN cfg.w THEN cfg ELSE Renormalize(cfg, present)
        sum == SumOver([m \in present |-> c.w[m] * signals[m]], present)
        d == c.den * levels
    IN  <<clamp(sum, 0, d), d>>

Fuse(cfg, signals, stale) == FuseScaled(cfg, signals, stale, ValueLevels)

\* raw_score = (1 - risk) * 100
RawScore(risk) == ((risk[2] - risk[1]) * 100) \div risk[2]

\* raw_score in tenths of a point, rounded to the nearest tenth.
RawScoreTenths(risk) == ((risk[2] - risk[1]) * 2000 + risk[2]) \div (2 * risk[2])

SameRisk(a, b) == a[1] * b[2] = b[1] * a[2]

(***************************************************************************)
(* Middleware (updateSession).  A path is its first segment and whether it *)
(* holds a dot; "/" and "/landing" are the exact paths.                    *)
(***************************************************************************)
ExactPaths == {"/", "/landing"}
PathPrefixes ==
    {"/_next", "/api", "/auth/", "/privacy-consent-setup",
     "/fleet-management-console", "/driver-attention-monitor", "/other"}

Paths ==
    { [prefix |-> p, dot |-> FALSE] : p \in ExactPaths }
      \cup { [prefix |-> p, dot |-> d] : p \in PathPrefixes, d \in BOOLEAN }

\* supabase.auth.getUser(): no session, a user, or an exception.
GetUserResults == {"none", "user", "throws"}
\* The profile lookup: no row (data null), a row with its role, an exception.
ProfileResults == {"none", "USER", "EMPLOYEE", "throws"}

PassThrough == [kind |-> "next", to |-> "-"]
Redirect(pathname) == [kind |-> "redirect", to |-> pathname]
Pending == [kind |-> "pending", to |-> "-"]

InitAuthIdle ==
    /\ reqPath = [prefix |-> "/", dot |-> FALSE]
    /\ getUserResult = "none"
    /\ profileResult = "none"
    /\ response = Pending

(***************************************************************************)
(* CameraFeed at rest: privacy mode on from the start, no camera asked for. *)
(***************************************************************************)
InitCameraIdle ==
    /\ privacy = TRUE
    /\ isSimulated = TRUE
    /\ gumPending = 0
    /\ streams = <<>>
    /\ srcObject = 0
    /\ posted = 0
    /\ postedInPrivacy = FALSE
    /\ nToggles = 0
    /\ inflight = {}
    /\ heldSeq = 0

(***************************************************************************)
(* Privacy consent setup (PrivacyConsentInteractive, ConsentActions).      *)
(***************************************************************************)
totalSteps == 4
ConsentIds == {"camera", "processing", "analytics"}
NoConsents == [camera |-> FALSE, processing |-> FALSE, analytics |-> FALSE]
Unsaved == [written |-> FALSE, value |-> NoConsents]

\* The page as mounted: step 0, the default consents, the user not loaded.
InitConsentIdle ==
    /\ consents = [camera |-> FALSE, processing |-> FALSE, analytics |-> TRUE]
    /\ currentStep = 0
    /\ userId = "null"
    /\ savedConsents = Unsaved
    /\ savedBy = "none"
    /\ navigated = "none"

(***************************************************************************)
(* The animated score of AttentionGauge.  Scores are fixed-point numbers   *)
(* of Scale units per point.                                               *)
(***************************************************************************)
Scale == 1000

\* The gauge as mounted: animatedScore 0, no callback run yet.
InitGaugeIdle ==
    /\ gaugeScore = 95 * Scale
    /\ animatedScore = 0
    /\ gaugeSteps = 0
    /\ nScoreChanges = 0

(***************************************************************************)
(* The monitor page whose simulation loop is started once                  *)
(* (components/DriverMonitorInteractive.tsx).                              *)
(***************************************************************************)
V1InitialAttention == 85
\* useState({}): every setting reads as false.
EmptyEnv == [id \in ToggleIds |-> FALSE]

\* The page after hydration: the loop is started, the controls are mounted
\* and have reported their settings, all of them off.
InitLoopIdle ==
    /\ v1Attention = V1InitialAttention
    /\ v1Env = EmptyEnv
    /\ v1Ticks = 0
    /\ v1Toggles = 0

(***************************************************************************)
(* The signup pages (FleetSignUp, DriverSignUp).                           *)
(***************************************************************************)
\* No signup submitted yet: no account, no profile row.
InitSignupIdle ==
    /\ signupForm = "none"
    /\ signupPhase = "idle"
    /\ signupError = ""
    /\ authUsers = {}
    /\ profileRows = {}
    /\ nSignups = 0

(***************************************************************************)
(* The trend list of the monitor page.                                     *)
(***************************************************************************)
\* useState([]): no entry logged yet.
InitTrendIdle ==
    /\ trend = <<>>
    /\ trendNow = 0
    /\ trendScore = InitialAttention
    /\ nTrendTicks = 0

(***************************************************************************)
(* The role-specific sign-in pages (DriverSignIn, FleetSignIn).            *)
(***************************************************************************)
\* Nothing submitted: no session.
InitSigninIdle ==
    /\ signinForm = "none"
    /\ signinPhase = "idle"
    /\ accountRole = "none"
    /\ session = FALSE
    /\ signinError = FALSE
    /\ signinGoesTo = "none"
    /\ nSignins = 0

(***************************************************************************)
(* Registration of employee ids (fleet signup pages, create-profile route).*)
(***************************************************************************)
Registrants == {"r1", "r2"}
EmployeeIds == {"VW-0001", "VW-0002"}

\* Nobody registers: no profile row with an employee id.
InitRegisterIdle ==
    /\ regEmployeeId = [r \in Registrants |-> "VW-0001"]
    /\ regPhase = [r \in Registrants |-> "idle"]
    /\ regRows = {}

InitFusionIdle ==
    /\ fConfig = [w |-> [m \in Modalities |-> 0], den |-> 0]
    /\ fSignals = [m \in Modalities |-> 0]
    /\ fStale = "none"
    /\ fOut = [done |-> FALSE, renormalized |-> <<0, 1>>, excluded |-> <<0, 1>>]

\* A specification starts the components it does not run at rest.
IdleExceptMonitor ==
    /\ InitFusionIdle
    /\ InitAuthIdle
    /\ InitCameraIdle
    /\ InitConsentIdle
    /\ InitGaugeIdle
    /\ InitLoopIdle
    /\ InitSignupIdle
    /\ InitTrendIdle
    /\ InitSigninIdle
    /\ InitRegisterIdle

IdleExceptFusion ==
    /\ InitMonitor
    /\ InitAuthIdle
    /\ InitCameraIdle
    /\ InitConsentIdle
    /\ InitGaugeIdle
    /\ InitLoopIdle
    /\ InitSignupIdle
    /\ InitTrendIdle
    /\ InitSigninIdle
    /\ InitRegisterIdle

IdleExceptAuth ==
    /\ InitMonitor
    /\ InitFusionIdle
    /\ InitCameraIdle
    /\ InitConsentIdle
    /\ InitGaugeIdle
    /\ InitLoopIdle
    /\ InitSignupIdle
    /\ InitTrendIdle
    /\ InitSigninIdle
    /\ InitRegisterIdle

IdleExceptCamera ==
    /\ InitMonitor
    /\ InitFusionIdle
    /\ InitAuthIdle
    /\ InitConsentIdle
    /\ InitGaugeIdle
    /\ InitLoopIdle
    /\ InitSignupIdle
    /\ InitTrendIdle
    /\ InitSigninIdle
    /\ InitRegisterIdle

IdleExceptConsent ==
    /\ InitMonitor
    /\ InitFusionIdle
    /\ InitAuthIdle
    /\ InitCameraIdle
    /\ InitGaugeIdle
    /\ InitLoopIdle
    /\ InitSignupIdle
    /\ InitTrendIdle
    /\ InitSigninIdle
    /\ InitRegisterIdle

IdleExceptGauge ==
    /\ InitMonitor
    /\ InitFusionIdle
    /\ InitAuthIdle
    /\ InitCameraIdle
    /\ InitConsentIdle
    /\ InitLoopIdle
    /\ InitSignupIdle
    /\ InitTrendIdle
    /\ InitSigninIdle
    /\ InitRegisterIdle

IdleExceptLoop ==
    /\ InitMonitor
    /\ InitFusionIdle
    /\ InitAuthIdle
    /\ InitCameraIdle
    /\ InitConsentIdle
    /\ InitGaugeIdle
    /\ InitSignupIdle
    /\ InitTrendIdle
    /\ InitSigninIdle
    /\ InitRegisterIdle

IdleExceptSignup ==
    /\ InitMonitor
    /\ InitFusionIdle
    /\ InitAuthIdle
    /\ InitCameraIdle
    /\ InitConsentIdle
    /\ InitGaugeIdle
    /\ InitLoopIdle
    /\ InitTrendIdle
    /\ InitSigninIdle
    /\ InitRegisterIdle

IdleExceptTrend ==
    /\ InitMonitor
    /\ InitFusionIdle
    /\ InitAuthIdle
    /\ InitCameraIdle
    /\ InitConsentIdle
    /\ InitGaugeIdle
    /\ InitLoopIdle
    /\ InitSignupIdle
    /\ InitSigninIdle
    /\ InitRegisterIdle

IdleExceptSignin ==
    /\ InitMonitor
    /\ InitFusionIdle
    /\ InitAuthIdle
    /\ InitCameraIdle
    /\ InitConsentIdle
    /\ InitGaugeIdle
    /\ InitLoopIdle
    /\ InitSignupIdle
    /\ InitTrendIdle
    /\ InitRegisterIdle

IdleExceptRegister ==
    /\ InitMonitor
    /\ InitFusionIdle
    /\ InitAuthIdle
    /\ InitCameraIdle
    /\ InitConsentIdle
    /\ InitGaugeIdle
    /\ InitLoopIdle
    /\ InitSignupIdle
    /\ InitTrendIdle
    /\ InitSigninIdle

Init == InitMonitor /\ IdleExceptMonitor

Next ==
    \/ Tick
    \/ Advance
    \/ OnPrediction
    \/ ToggleSetting
    \/ HandleSpeedChange
    \/ SetAudioMode

Spec == Init /\ [][Next]_vars

(***************************************************************************)
(* AlertSystem on its own: its currentScore prop moves inside the          *)
(* hysteresis band (boundary +- margin / 2) of one of its severity         *)
(* thresholds, without a prediction.                                       *)
(***************************************************************************)
HysteresisMargin == 5
SeverityBoundaries == {20, 30}

InBand(score, b) == 2 * Abs(score - b) <= HysteresisMargin

BandScores == { s \in 0..100 : \E b \in SeverityBoundaries : InBand(s, b) }

\* AlertSystem mounted with a score in a band: its effect has run once.
InitClassifier ==
    /\ now = StartMs
    /\ simAt = StartMs + TickMs
    /\ attention \in BandScores
    /\ speed = InitialSpeed
    /\ steering = 0
    /\ micro = FALSE
    /\ env = InitialEnv
    /\ lastPrediction = Null
    /\ predAt = 0
    /\ audioMode = "voice"
    /\ lastSpeedRef = InitialSpeed
    /\ lastSteerRef = 0
    /\ lastAlertRef = 0
    /\ lastSpeechRef = 0
    /\ newScore = attention
    /\ backendScore = NoScore
    /\ tone = 0
    /\ utter = "none"
    /\ alerts = AlertEffect(attention, speed, Null, <<>>)
    /\ nEvents = 0
    /\ IdleExceptMonitor

\* The parent publishes another score of the same band: the alert effect
\* runs with the new currentScore.
ScoreChange ==
    /\ now >= simAt
    /\ \E s \in BandScores \ {attention} :
        /\ \E b \in SeverityBoundaries : InBand(attention, b) /\ InBand(s, b)
        /\ attention' = s
        /\ newScore' = s
        /\ alerts' = AlertEffect(s, speed, Null, alerts)
    /\ simAt' = now + TickMs
    /\ UNCHANGED <<now, speed, steering, micro, env, lastPrediction, predAt,
                   audioMode, lastSpeedRef, lastSteerRef, lastAlertRef,
                   lastSpeechRef, backendScore, tone, utter, nEvents>>
    /\ UNCHANGED exceptMonitor

NextClassifier ==
    \/ ScoreChange
    \/ Advance

SpecClassifier == InitClassifier /\ [][NextClassifier]_vars

(***************************************************************************)
(* fuse on its own: every configuration, every combination of signal       *)
(* values, one stale modality.                                             *)
(***************************************************************************)
InitFuse ==
    /\ IdleExceptFusion
    /\ fConfig \in Configs
    /\ fSignals \in [Modalities -> 0..ValueLevels]
    /\ fStale \in Modalities
    /\ fOut = [done |-> FALSE, renormalized |-> <<0, 1>>, excluded |-> <<0, 1>>]

\* fuse with the stale modality skipped, and fuse with the configuration
\* that does not hold the modality.
RunFuse ==
    /\ ~fOut.done
    /\ fOut' = [done |-> TRUE,
                renormalized |-> Fuse(fConfig, fSignals, {fStale}),
                excluded |-> Fuse(ExcludeModality(fConfig, fStale), fSignals, {})]
    /\ UNCHANGED <<fConfig, fSignals, fStale>>
    /\ UNCHANGED exceptFusion

NextFuse == RunFuse

SpecFuse == InitFuse /\ [][NextFuse]_vars

(***************************************************************************)
(* fuse with the documented weights 0.5, 0.3, 0.2 and no stale modality,   *)
(* the signal values in hundredths.                                        *)
(***************************************************************************)
ScenarioLevels == 100
MaxScenarioValue == 10

ScenarioConfig ==
    [w |-> [m \in Modalities |->
                CASE m = "drowsiness" -> 5 [] m = "distraction" -> 3 [] OTHER -> 2],
     den |-> 10]

ScenarioA ==
    [m \in Modalities |->
        CASE m = "drowsiness" -> 10 [] m = "distraction" -> 5 [] OTHER -> 2]

InitScenario ==
    /\ IdleExceptFusion
    /\ fConfig = ScenarioConfig
    /\ fSignals \in [Modalities -> 0..MaxScenarioValue]
    /\ fStale = "none"
    /\ fOut = [done |-> FALSE, renormalized |-> <<0, 1>>, excluded |-> <<0, 1>>]

RunScenario ==
    /\ ~fOut.done
    /\ fOut' = [fOut EXCEPT !.done = TRUE,
                            !.renormalized =
                                FuseScaled(fConfig, fSignals, {}, ScenarioLevels)]
    /\ UNCHANGED <<fConfig, fSignals, fStale>>
    /\ UNCHANGED exceptFusion

NextScenario == RunScenario

SpecScenario == InitScenario /\ [][NextScenario]_vars

(***************************************************************************)
(* updateSession on its own: every path, every outcome of the auth check.  *)
(***************************************************************************)
\* user after the try block: set only if getUser returned one.
MwUser(gu) == gu = "user"

\* userProfile after the try block: the row, or null (no user, no row, or
\* an exception caught).
MwProfile(gu, pr) == IF gu = "user" /\ pr \in {"USER", "EMPLOYEE"} THEN pr ELSE "null"

updateSession(path, gu, pr) ==
    LET user == MwUser(gu)
        userProfile == MwProfile(gu, pr)
        isAuthPath == path.prefix = "/auth/"
    IN  IF path.prefix \in ExactPaths THEN PassThrough
        ELSE IF path.prefix \in {"/_next", "/api"} \/ path.dot THEN PassThrough
        ELSE IF ~user
        THEN IF isAuthPath THEN PassThrough
             ELSE IF path.prefix = "/fleet-management-console"
             THEN Redirect("/auth/fleet/signin")
             ELSE IF path.prefix = "/driver-attention-monitor"
             THEN Redirect("/auth/driver/signin")
             ELSE Redirect("/landing")
        ELSE IF isAuthPath
        THEN IF userProfile = "EMPLOYEE"
             THEN Redirect("/fleet-management-console")
             ELSE Redirect("/driver-attention-monitor")
        ELSE IF userProfile # "null" /\ path.prefix = "/fleet-management-console"
                /\ userProfile = "USER"
        THEN Redirect("/driver-attention-monitor")
        ELSE PassThrough

InitMiddleware ==
    /\ reqPath \in Paths
    /\ getUserResult \in GetUserResults
    /\ profileResult \in ProfileResults
    /\ response = Pending
    /\ IdleExceptAuth

UpdateSession ==
    /\ response = Pending
    /\ response' = updateSession(reqPath, getUserResult, profileResult)
    /\ UNCHANGED <<reqPath, getUserResult, profileResult>>
    /\ UNCHANGED exceptAuth

NextMiddleware == UpdateSession

SpecMiddleware == InitMiddleware /\ [][NextMiddleware]_vars

(***************************************************************************)
(* CameraFeed: the camera effect and sendFrame.  The video element is      *)
(* rendered, and videoRef.current set, exactly while isSimulated is false. *)
(***************************************************************************)
MaxToggles == 3
MaxFrames == 3

\* Mounted and hydrated with privacy mode off: the camera effect has called
\* getUserMedia.
InitCamera ==
    /\ privacy = FALSE
    /\ isSimulated = FALSE
    /\ gumPending = 1
    /\ streams = <<>>
    /\ srcObject = 0
    /\ posted = 0
    /\ postedInPrivacy = FALSE
    /\ nToggles = 0
    /\ inflight = {}
    /\ heldSeq = 0
    /\ IdleExceptCamera

\* The cleanup of the camera effect: stop the tracks of the stream of the
\* video element, if there is an element and it has a stream.
CameraCleanup(ss) ==
    IF ~isSimulated /\ srcObject # 0
    THEN [ss EXCEPT ![srcObject] = "stopped"]
    ELSE ss

\* The user toggles privacy mode: the cleanup of the camera effect runs,
\* then the effect with the new prop.
TogglePrivacy ==
    /\ nToggles < MaxToggles
    /\ nToggles' = nToggles + 1
    /\ privacy' = ~privacy
    /\ streams' = CameraCleanup(streams)
    /\ IF privacy'
       THEN /\ isSimulated' = TRUE
            /\ srcObject' = 0
            /\ gumPending' = gumPending
       ELSE /\ gumPending' = gumPending + 1
            /\ UNCHANGED <<isSimulated, srcObject>>
    /\ UNCHANGED <<posted, postedInPrivacy, inflight, heldSeq>>
    /\ UNCHANGED exceptCamera

\* getUserMedia resolves with a stream: it is attached if there is a video
\* element.
CameraGranted ==
    /\ gumPending > 0
    /\ gumPending' = gumPending - 1
    /\ streams' = Append(streams, "live")
    /\ srcObject' = IF ~isSimulated THEN Len(streams) + 1 ELSE srcObject
    /\ UNCHANGED <<privacy, isSimulated, posted, postedInPrivacy, nToggles, inflight,
                   heldSeq>>
    /\ UNCHANGED exceptCamera

\* getUserMedia rejects: the simulated feed replaces the video element.
CameraDenied ==
    /\ gumPending > 0
    /\ gumPending' = gumPending - 1
    /\ isSimulated' = TRUE
    /\ srcObject' = 0
    /\ UNCHANGED <<privacy, streams, posted, postedInPrivacy, nToggles, inflight,
                   heldSeq>>
    /\ UNCHANGED exceptCamera

\* The 800 ms interval calls sendFrame, which captures and posts a frame
\* unless the feed is simulated, and then awaits the response.
SendFrame ==
    /\ ~isSimulated
    /\ posted < MaxFrames
    /\ posted' = posted + 1
    /\ postedInPrivacy' = (postedInPrivacy \/ privacy)
    /\ inflight' = inflight \cup {posted + 1}
    /\ UNCHANGED <<privacy, isSimulated, gumPending, streams, srcObject, nToggles,
                   heldSeq>>
    /\ UNCHANGED exceptCamera

\* The response to a posted frame arrives: sendFrame hands its result to
\* onPrediction.
PredictResponse ==
    /\ \E k \in inflight :
        /\ inflight' = inflight \ {k}
        /\ heldSeq' = k
    /\ UNCHANGED <<privacy, isSimulated, gumPending, streams, srcObject, posted,
                   postedInPrivacy, nToggles>>
    /\ UNCHANGED exceptCamera

\* The request for a posted frame fails (!res.ok, or fetch throws): sendFrame
\* returns without a call of onPrediction.
PredictFails ==
    /\ \E k \in inflight : inflight' = inflight \ {k}
    /\ UNCHANGED <<privacy, isSimulated, gumPending, streams, srcObject, posted,
                   postedInPrivacy, nToggles, heldSeq>>
    /\ UNCHANGED exceptCamera

NextCamera ==
    \/ TogglePrivacy
    \/ CameraGranted
    \/ CameraDenied
    \/ SendFrame
    \/ PredictResponse
    \/ PredictFails

SpecCamera == InitCamera /\ [][NextCamera]_vars

(***************************************************************************)
(* The consent setup: the steps, the toggles, Complete Setup and           *)
(* Sensor-Only Mode.  Both buttons are links to /driver-attention-monitor  *)
(* whose click handler never prevents the navigation.                      *)
(***************************************************************************)
\* The outcome of an update of the profiles row.
UpdateOutcomes == {"ok", "error"}
\* The role read back after the update.
Roles == {"USER", "EMPLOYEE"}

InitConsent == InitConsentIdle /\ IdleExceptConsent

\* loadUserConsents has got the user and the consents of the profile row,
\* none of them set yet: camera and processing false, analytics true.
loadUserConsents ==
    /\ navigated = "none"
    /\ userId = "null"
    /\ userId' = "u1"
    /\ consents' = [camera |-> FALSE, processing |-> FALSE, analytics |-> TRUE]
    /\ UNCHANGED <<currentStep, savedConsents, savedBy, navigated>>
    /\ UNCHANGED exceptConsent

\* A toggle of ConsentSections, shown on steps 1 and 3.
handleConsentChange ==
    /\ navigated = "none"
    /\ currentStep \in {1, 3}
    /\ \E id \in ConsentIds : consents' = [consents EXCEPT ![id] = ~consents[id]]
    /\ UNCHANGED <<currentStep, userId, savedConsents, savedBy, navigated>>
    /\ UNCHANGED exceptConsent

handleNext ==
    /\ navigated = "none"
    /\ currentStep < totalSteps - 1
    /\ currentStep' = currentStep + 1
    /\ UNCHANGED <<consents, userId, savedConsents, savedBy, navigated>>
    /\ UNCHANGED exceptConsent

handlePrevious ==
    /\ navigated = "none"
    /\ currentStep > 0
    /\ currentStep < totalSteps - 1
    /\ currentStep' = currentStep - 1
    /\ UNCHANGED <<consents, userId, savedConsents, savedBy, navigated>>
    /\ UNCHANGED exceptConsent

\* What a click on one of the two links of the last step does: the handler
\* writes value unless the user is not loaded or the update fails, and the
\* link navigates; after a successful write router.push follows the role.
FinishSetup(by, value) ==
    /\ navigated = "none"
    /\ currentStep >= totalSteps - 1
    /\ \E outcome \in UpdateOutcomes, role \in Roles :
        IF userId # "null" /\ outcome = "ok"
        THEN /\ savedConsents' = [written |-> TRUE, value |-> value]
             /\ savedBy' = by
             /\ navigated' = IF role = "EMPLOYEE" THEN "/fleet-management-console"
                              ELSE "/driver-attention-monitor"
        ELSE /\ UNCHANGED <<savedConsents, savedBy>>
             /\ navigated' = "/driver-attention-monitor"
    /\ UNCHANGED <<consents, currentStep, userId>>
    /\ UNCHANGED exceptConsent

\* The Complete Setup link: onClick = handleComplete.
handleComplete == FinishSetup("complete", consents)

\* The Sensor-Only Mode link: onClick = handleSensorOnly.
handleSensorOnly == FinishSetup("sensorOnly", NoConsents)

NextConsent ==
    \/ loadUserConsents
    \/ handleConsentChange
    \/ handleNext
    \/ handlePrevious
    \/ handleComplete
    \/ handleSensorOnly

SpecConsent == InitConsent /\ [][NextConsent]_vars

(***************************************************************************)
(* AttentionGauge: every 16 ms the animated score moves a tenth of the way *)
(* to the score prop, and snaps to it when closer than 0.1.                *)
(***************************************************************************)
\* 1/alpha of prev + diff * 0.1.
InvAlpha == 10
\* The snap distance 0.1, in units.
SnapDistance == Scale \div 10
\* ln(100 / 0.1) rounded up: the range of the score over the snap distance.
LnRange == 7
\* The step bound of the claim: LnRange / alpha steps, and the snap.
StepBound == LnRange * InvAlpha + 1
MaxExtraSteps == 3
MaxScoreChanges == 1
GaugeInputs == {0, 40 * Scale + 345, 95 * Scale, 100 * Scale}

\* diff * 0.1 rounded to a unit, down or up: any rounding of the product.
TenthOf(diff) ==
    LET m == Abs(diff)
        sign == IF diff < 0 THEN -1 ELSE 1
    IN  { sign * (m \div InvAlpha),
          sign * ((m + InvAlpha - 1) \div InvAlpha) }

\* The updater without the snap (pure exponential smoothing).
SmoothOnly(prev, target) ==
    { prev + d : d \in TenthOf(target - prev) }

\* The updater of setAnimatedScore.
Animate(prev, target) ==
    LET diff == target - prev
    IN  IF Abs(diff) < SnapDistance THEN {target}
        ELSE { prev + d : d \in TenthOf(diff) }

InitGauge ==
    /\ gaugeScore \in GaugeInputs
    /\ animatedScore = 0
    /\ gaugeSteps = 0
    /\ nScoreChanges = 0
    /\ IdleExceptGauge

\* One interval callback.
AnimateTick ==
    /\ animatedScore' \in Animate(animatedScore, gaugeScore)
    /\ gaugeSteps' = Min(gaugeSteps + 1, StepBound + MaxExtraSteps)
    /\ UNCHANGED <<gaugeScore, nScoreChanges>>
    /\ UNCHANGED exceptGauge

\* The parent renders the gauge with another score: the effect re-runs.
ScorePropChanges ==
    /\ nScoreChanges < MaxScoreChanges
    /\ \E s \in GaugeInputs \ {gaugeScore} : gaugeScore' = s
    /\ gaugeSteps' = 0
    /\ nScoreChanges' = nScoreChanges + 1
    /\ UNCHANGED animatedScore
    /\ UNCHANGED exceptGauge

NextGauge ==
    \/ AnimateTick
    \/ ScorePropChanges

SpecGauge == InitGauge /\ [][NextGauge]_vars

(***************************************************************************)
(* The run-once simulation loop.  The effect has the dependency list       *)
(* [hydrated], so the interval callback is the closure of the render in    *)
(* which hydrated became true: it reads attention and env of that render.  *)
(***************************************************************************)
V1ToggleInputs == {"drowsiness", "nightMode"}

\* The attention score the callback computes from att and e: the noise, the
\* penalties of the settings, of a wide steering angle and of a micro event.
V1NewScore(att, e, noise, wide, microEvent) ==
    att + noise
        - (IF e["nightMode"] THEN 4 ELSE 0)
        - (IF e["drowsiness"] THEN 12 ELSE 0)
        - (IF e["potholes"] THEN 6 ELSE 0)
        - (IF wide THEN 2 ELSE 0)
        - (IF microEvent THEN 5 ELSE 0)

\* The scores a callback can publish that reads att and e.
V1Scores(att, e) ==
    { clamp(V1NewScore(att, e, noise, wide, microEvent), 0, 100) :
        noise \in ScoreNoise, wide \in BOOLEAN, microEvent \in BOOLEAN }

InitLoop == InitLoopIdle /\ IdleExceptLoop

\* The interval callback: attention and env are those of the closure.
V1Tick ==
    /\ v1Ticks < MaxTicks
    /\ v1Attention' \in V1Scores(V1InitialAttention, EmptyEnv)
    /\ v1Ticks' = v1Ticks + 1
    /\ UNCHANGED <<v1Env, v1Toggles>>
    /\ UNCHANGED exceptLoop

\* toggleSetting of the controls, with onSettingsChange = setEnv.
V1ToggleSetting ==
    /\ v1Toggles < MaxEvents
    /\ \E id \in V1ToggleInputs : v1Env' = [v1Env EXCEPT ![id] = ~v1Env[id]]
    /\ v1Toggles' = v1Toggles + 1
    /\ UNCHANGED <<v1Attention, v1Ticks>>
    /\ UNCHANGED exceptLoop

NextLoop ==
    \/ V1Tick
    \/ V1ToggleSetting

SpecLoop == InitLoop /\ [][NextLoop]_vars

(***************************************************************************)
(* handleSubmit of the signup pages: validation, supabase.auth.signUp,     *)
(* then the insert of the profile row, each one awaited.                   *)
(***************************************************************************)
MaxSignups == 3
SignupForms == {"fleet", "driver"}
\* The outcome of an awaited supabase call: a result, an error, a throw.
CallOutcomes == {"ok", "error", "throws"}

InitSignup == InitSignupIdle /\ IdleExceptSignup

\* The form is submitted: it is refused (passwords, or the employee id of
\* the fleet form is registered already) or signUp is called.
handleSubmit ==
    /\ signupPhase \in {"idle", "finished"}
    /\ nSignups < MaxSignups
    /\ nSignups' = nSignups + 1
    /\ \E form \in SignupForms, valid \in BOOLEAN :
        /\ signupForm' = form
        /\ IF valid
           THEN signupPhase' = "signUp" /\ signupError' = ""
           ELSE signupPhase' = "finished" /\ signupError' = "invalid"
    /\ UNCHANGED <<authUsers, profileRows>>
    /\ UNCHANGED exceptSignup

\* supabase.auth.signUp returns: the account is created, or the attempt
\* ends with the error shown.
AuthSignUp ==
    /\ signupPhase = "signUp"
    /\ \E outcome \in CallOutcomes :
        IF outcome = "ok"
        THEN /\ authUsers' = authUsers \cup {nSignups}
             /\ signupPhase' = "insert"
             /\ UNCHANGED signupError
        ELSE /\ signupPhase' = "finished"
             /\ signupError' = "signUp " \o outcome
             /\ UNCHANGED authUsers
    /\ UNCHANGED <<signupForm, profileRows, nSignups>>
    /\ UNCHANGED exceptSignup

\* profiles.insert returns: the row is there and the page navigates, or the
\* attempt ends with the error shown; the account is left as it is.
ProfilesInsert ==
    /\ signupPhase = "insert"
    /\ \E outcome \in CallOutcomes :
        IF outcome = "ok"
        THEN /\ profileRows' = profileRows \cup
                    {<<nSignups, IF signupForm = "fleet" THEN "EMPLOYEE" ELSE "USER">>}
             /\ UNCHANGED signupError
        ELSE /\ signupError' = "insert " \o outcome
             /\ UNCHANGED profileRows
    /\ signupPhase' = "finished"
    /\ UNCHANGED <<signupForm, authUsers, nSignups>>
    /\ UNCHANGED exceptSignup

NextSignup ==
    \/ handleSubmit
    \/ AuthSignUp
    \/ ProfilesInsert

SpecSignup == InitSignup /\ [][NextSignup]_vars

(***************************************************************************)
(* Trend logging: the last statement of the interval callback appends an   *)
(* entry to the last TrendKeep entries of the list.  The score of a tick   *)
(* is taken to drift down by the low noise, so that the run is long enough *)
(* for entries to be evicted.                                              *)
(***************************************************************************)
TrendKeep == 25
MaxTrendTicks == 30
MinuteMs == 60000
\* Date.now() when the page is mounted.
TrendStarts == {0, 300, 41000, 59500}

\* Math.floor((Date.now() % 60000) / 1000)
TimeOf(ms) == (ms % MinuteMs) \div 1000

TrendEntry(ms, sc) == [timestamp |-> ms, score |-> sc, time |-> TimeOf(ms)]

\* prev.slice(-25)
LastEntries(prev, n) == SubSeq(prev, Max(1, Len(prev) - n + 1), Len(prev))

\* A list that is never cut.
LogTrendUncut(prev, entry) == Append(prev, entry)

\* setTrend(prev => [...prev.slice(-25), entry])
LogTrend(prev, entry) == Append(LastEntries(prev, TrendKeep), entry)

InitTrend ==
    /\ trend = <<>>
    /\ trendNow \in TrendStarts
    /\ trendScore = InitialAttention
    /\ nTrendTicks = 0
    /\ IdleExceptTrend

\* The interval callback, TickMs after the last one: the score of the tick
\* is published and logged.
TrendTick ==
    /\ nTrendTicks < MaxTrendTicks
    /\ nTrendTicks' = nTrendTicks + 1
    /\ trendNow' = trendNow + TickMs
    /\ trendScore' = clamp(trendScore - 3, 0, 100)
    /\ trend' = LogTrend(trend, TrendEntry(trendNow', trendScore'))
    /\ UNCHANGED exceptTrend

NextTrend == TrendTick

SpecTrend == InitTrend /\ [][NextTrend]_vars

(***************************************************************************)
(* handleSubmit of the sign-in pages: signInWithPassword, the lookup of    *)
(* the role, then the dashboard or signOut, each call awaited.             *)
(***************************************************************************)
MaxSignins == 3
SigninForms == {"driver", "fleet"}
\* The profile of the account that signs in.
AccountRoles == {"USER", "EMPLOYEE", "none"}
\* The role a sign-in page admits, and its dashboard.
PageRole(form) == IF form = "driver" THEN "USER" ELSE "EMPLOYEE"
Dashboard(form) ==
    IF form = "driver" THEN "/driver-attention-monitor" ELSE "/fleet-management-console"

InitSignin ==
    /\ signinForm = "none"
    /\ signinPhase = "idle"
    /\ accountRole \in AccountRoles
    /\ session = FALSE
    /\ signinError = FALSE
    /\ signinGoesTo = "none"
    /\ nSignins = 0
    /\ IdleExceptSignin

\* The form is submitted: setError(""), signInWithPassword is called.
SigninSubmit ==
    /\ signinPhase \in {"idle", "finished"}
    /\ signinGoesTo = "none"
    /\ nSignins < MaxSignins
    /\ nSignins' = nSignins + 1
    /\ \E form \in SigninForms : signinForm' = form
    /\ signinPhase' = "password"
    /\ signinError' = FALSE
    /\ UNCHANGED <<accountRole, session, signinGoesTo>>
    /\ UNCHANGED exceptSignin

\* signInWithPassword returns: a session and the lookup of the role, or the
\* error shown (signInError, or a throw caught).
SignInWithPassword ==
    /\ signinPhase = "password"
    /\ \E outcome \in CallOutcomes :
        IF outcome = "ok"
        THEN session' = TRUE /\ signinPhase' = "lookup" /\ UNCHANGED signinError
        ELSE signinError' = TRUE /\ signinPhase' = "finished" /\ UNCHANGED session
    /\ UNCHANGED <<signinForm, accountRole, signinGoesTo, nSignins>>
    /\ UNCHANGED exceptSignin

\* The lookup of the role returns: the dashboard for the role of the page,
\* signOut for another or no profile (data null, also on an error returned),
\* the catch block for a throw.
RoleLookup ==
    /\ signinPhase = "lookup"
    /\ \E outcome \in CallOutcomes :
        LET profileRole == IF outcome = "ok" THEN accountRole ELSE "none"
        IN  IF outcome = "throws"
            THEN /\ signinError' = TRUE
                 /\ signinPhase' = "finished"
                 /\ UNCHANGED signinGoesTo
            ELSE IF profileRole # PageRole(signinForm)
            THEN /\ signinPhase' = "signOut"
                 /\ UNCHANGED <<signinError, signinGoesTo>>
            ELSE /\ signinGoesTo' = Dashboard(signinForm)
                 /\ signinPhase' = "finished"
                 /\ UNCHANGED signinError
    /\ UNCHANGED <<signinForm, accountRole, session, nSignins>>
    /\ UNCHANGED exceptSignin

\* signOut returns, and the error is shown; a throw goes to the catch block
\* with the session as it was.
SignOut ==
    /\ signinPhase = "signOut"
    /\ \E outcome \in {"ok", "throws"} :
        session' = IF outcome = "ok" THEN FALSE ELSE session
    /\ signinError' = TRUE
    /\ signinPhase' = "finished"
    /\ UNCHANGED <<signinForm, accountRole, signinGoesTo, nSignins>>
    /\ UNCHANGED exceptSignin

NextSignin ==
    \/ SigninSubmit
    \/ SignInWithPassword
    \/ RoleLookup
    \/ SignOut

SpecSignin == InitSignin /\ [][NextSignin]_vars

(***************************************************************************)
(* Concurrent registrations.  Each one first selects the profile with the  *)
(* employee id and refuses if there is one, and later, after further       *)
(* awaited calls, writes its own row: from the signup page (insert) or     *)
(* from the create-profile route (upsert on the user id).                  *)
(***************************************************************************)
RegisterVia == {"signup", "route"}

InitRegister ==
    /\ regEmployeeId \in [Registrants -> EmployeeIds]
    /\ regPhase = [r \in Registrants |-> "idle"]
    /\ regRows = {}
    /\ IdleExceptRegister

\* The duplicate check of registrant r returns: "already registered" if a
\* row has the employee id, otherwise the registration goes on.
CheckDuplicate(r) ==
    /\ regPhase[r] = "idle"
    /\ \E via \in RegisterVia :
        regPhase' = [regPhase EXCEPT ![r] =
            IF \E row \in regRows : row[2] = regEmployeeId[r]
            THEN "rejected" ELSE via]
    /\ UNCHANGED <<regEmployeeId, regRows>>
    /\ UNCHANGED exceptRegister

\* The write of registrant r returns: the row is there, or an error (of
\* signUp or of the write) has ended the registration.
WriteProfile(r) ==
    /\ regPhase[r] \in RegisterVia
    /\ \E outcome \in CallOutcomes :
        IF outcome = "ok"
        THEN /\ regRows' = regRows \cup {<<r, regEmployeeId[r]>>}
             /\ regPhase' = [regPhase EXCEPT ![r] = "registered"]
        ELSE /\ regPhase' = [regPhase EXCEPT ![r] = "failed"]
             /\ UNCHANGED regRows
    /\ UNCHANGED regEmployeeId
    /\ UNCHANGED exceptRegister

NextRegister ==
    \E r \in Registrants :
        \/ CheckDuplicate(r)
        \/ WriteProfile(r)

SpecRegister == InitRegister /\ [][NextRegister]_vars

(***************************************************************************)
(* Properties.                                                             *)
(***************************************************************************)

\* C1: after any sequence of ticks, predictions (out-of-range
\* alertness_score values among them) and control changes, the published
\* attention score lies within [0, 100].
C1_AttentionInRange == attention \in 0..100

\* C1 witness: a tick blended an out-of-range backend score, computed a
\* score outside the range and published the clamped value.
C1_Witness ==
    /\ backendScore # NoScore
    /\ lastPrediction.alertness_score \notin 0..100
    /\ newScore \notin 0..100
    /\ attention = 0

\* C2: whenever the score changes (no prediction present, so that the score
\* alone decides), AlertSystem withholds an alert in the normal band and
\* otherwise emits one that carries the severity of the band of the score.
C2_AlertCarriesBandSeverity ==
    [][ (attention' # attention /\ lastPrediction = Null)
        => IF BandSeverity(attention') = "none"
           THEN alerts' = alerts
           ELSE /\ alerts' # alerts
                /\ Head(alerts').severity = BandSeverity(attention') ]_vars

\* The cooldown of a channel of the alert history: the voice channel has
\* the cooldown of speech, the visual channel that of the beep.
Cooldown(type) == IF type = "voice" THEN SpeechCooldownMs ELSE BeepCooldownMs

\* C3: two consecutive alerts of the same channel and severity in the
\* history of AlertSystem are more than the channel's cooldown apart.
C3_HistoryRespectsCooldown ==
    \A i \in 1..(Len(alerts) - 1) :
        (alerts[i].type = alerts[i + 1].type
         /\ alerts[i].severity = alerts[i + 1].severity)
        => alerts[i].timestamp - alerts[i + 1].timestamp > Cooldown(alerts[i].type)

\* C3, the audio alerts of the tick: no beep within the beep cooldown of
\* the last one and no utterance within the speech cooldown of the last one.
C3_TickAudioRespectsCooldown ==
    [][ /\ (lastAlertRef' # lastAlertRef => now - lastAlertRef > BeepCooldownMs)
        /\ (lastSpeechRef' # lastSpeechRef => now - lastSpeechRef > SpeechCooldownMs)
      ]_vars

\* C4: when a tick finds the score fallen into the critical band while the
\* speech cooldown of an earlier "reduced" utterance is running, it speaks
\* the critical message at once and restarts the cooldown.
C4_EscalationBypassesCooldown ==
    [][ ( /\ Tick
          /\ audioMode = "voice"
          /\ utter = "reduced"
          /\ now - lastSpeechRef <= SpeechCooldownMs
          /\ attention' < 40 )
        => (utter' = "critical" /\ lastSpeechRef' = now) ]_vars

\* C5: every alert of the history was emitted on the visual channel if the
\* speed was above the high-speed threshold and on the voice channel if not.
C5_ChannelGatedBySpeed ==
    \A i \in 1..Len(alerts) :
        alerts[i].type = IF alerts[i].speed > HighSpeed THEN "visual" ELSE "voice"

\* The number of changes of severity along the alert history.
SeverityChanges(h) ==
    Cardinality({ i \in 1..(Len(h) - 1) : h[i].severity # h[i + 1].severity })

\* C6: while the score moves inside the hysteresis band of a boundary, the
\* severity of the alerts changes at most once.
C6_NoFlapping == SeverityChanges(alerts) <= 1

\* C7: while degraded, with a fused score held from the last prediction, no
\* step moves the level of the published score to a less severe one.
C7_DegradedNeverImproves ==
    [][ (Degraded /\ HasBackendScore(lastPrediction))
        => LevelRank(attention') >= LevelRank(attention) ]_vars

\* C8: a tick that runs after the last prediction went stale does not use
\* the prediction's score.
C8_StalePredictionDropped ==
    [][ (Tick /\ Degraded) => backendScore' = NoScore ]_vars

\* C9: a producer update (a prediction, a change of the environment
\* controls) leaves the pending tick where it is.
C9_ProducerKeepsPendingTick ==
    [][ (OnPrediction \/ ToggleSetting \/ HandleSpeedChange)
        => simAt' = simAt ]_vars

\* C10: with one modality stale, fuse over the remaining modalities with
\* renormalised weights yields the risk of fuse with the configuration from
\* which the modality has been removed.
C10_RedistributionEquivalence ==
    fOut.done => SameRisk(fOut.renormalized, fOut.excluded)

\* C10 witness: unequal weights, the stale modality carries a signal, and
\* the risk computed lies strictly between 0 and 1.
C10_Witness ==
    /\ fOut.done
    /\ fSignals[fStale] > 0
    /\ \E a, b \in Modalities \ {fStale} : fConfig.w[a] # fConfig.w[b]
    /\ fOut.renormalized[1] > 0
    /\ fOut.renormalized[1] < fOut.renormalized[2]

\* C11 (as amended): fusing drowsiness 0.1, distraction 0.05, voice 0.02 with
\* the weights 0.5, 0.3, 0.2 yields risk = 0.069, raw_score = 93.1 and
\* level Normal.
C11_ScenarioA ==
    (fOut.done /\ fSignals = ScenarioA)
    => /\ SameRisk(fOut.renormalized, <<69, 1000>>)
       /\ RawScoreTenths(fOut.renormalized) = 931
       /\ LevelRank(RawScore(fOut.renormalized)) = 0

\* C11 witness: fuse has run on the signals of scenario A.
C11_Witness ==
    /\ fOut.done
    /\ fSignals = ScenarioA
    /\ fConfig = ScenarioConfig
    /\ fOut.renormalized = <<69, 1000>>

\* C11 (as stated): the same fusion yields risk = 0.083, raw_score = 91.7
\* and level Normal.
C11_ScenarioAAsStated ==
    (fOut.done /\ fSignals = ScenarioA)
    => /\ SameRisk(fOut.renormalized, <<83, 1000>>)
       /\ RawScoreTenths(fOut.renormalized) = 917
       /\ LevelRank(RawScore(fOut.renormalized)) = 0


\* C12: a request for a path under /fleet-management-console is passed
\* through exactly when the requester is authenticated and the profile's
\* role is EMPLOYEE; in every other case it is redirected.
C12_FleetOnlyForEmployee ==
    (response # Pending /\ reqPath.prefix = "/fleet-management-console")
    => (response.kind = "next"
        <=> (getUserResult = "user" /\ profileResult = "EMPLOYEE"))

\* C13: in every state with privacy mode on, no media stream opened by
\* CameraFeed is live and no frame has been posted with privacy mode on.
C13_PrivacyDisablesCamera ==
    privacy => /\ \A i \in 1..Len(streams) : streams[i] # "live"
               /\ ~postedInPrivacy

\* C13, the frames alone: no frame is posted with privacy mode on.
C13_NoFrameInPrivacy == ~postedInPrivacy

\* C17: the prediction held as the latest is never replaced by the
\* response to a frame captured earlier.
C17_LatestWins == [][heldSeq' >= heldSeq]_vars

\* C14: Complete Setup writes the consents to the profile, and leaves the
\* setup for a dashboard, only with both the camera and the processing
\* consent granted.
C14_RequiredConsentsGate ==
    savedBy = "complete"
        => (savedConsents.value.camera /\ savedConsents.value.processing)

\* C15: with the score prop constant, the animated score is exactly the
\* score after at most StepBound callbacks (a number proportional to
\* 1/alpha), from whatever value it had, and once equal it stays equal.
C15_ConvergesAndStays ==
    /\ [](gaugeSteps >= StepBound => animatedScore = gaugeScore)
    /\ [][ (gaugeScore' = gaugeScore /\ animatedScore = gaugeScore)
            => animatedScore' = gaugeScore ]_vars

\* C15 witness: the score changed while the animation was under way, and
\* StepBound callbacks later the animated score is the new score.
C15_Witness ==
    /\ nScoreChanges > 0
    /\ gaugeSteps >= StepBound
    /\ gaugeScore = 0
    /\ animatedScore = gaugeScore

\* C16: every alert is raised from the published attention score alone: it
\* is raised only below the alert threshold and with the severity
\* AlertSystem derives from that score, whatever the prediction holds.
C16_SeverityFromPublishedScore ==
    [][ alerts' # alerts
        => /\ attention' < AlertThreshold
           /\ Head(alerts').severity = ScoreSeverity(attention') ]_vars

\* C18: once the user has changed an environment setting, every tick of the
\* run-once loop publishes a score computed from the current attention and
\* the current settings.
C18_TickUsesCurrentState ==
    [][ (v1Ticks' # v1Ticks /\ v1Toggles > 0)
        => v1Attention' \in V1Scores(v1Attention, v1Env) ]_vars

\* C19: a request whose authentication check threw (getUser, or the profile
\* lookup of the user) is passed through, never redirected.
C19_FailedCheckPassesThrough ==
    ( /\ response # Pending
      /\ \/ getUserResult = "throws"
         \/ (getUserResult = "user" /\ profileResult = "throws") )
        => response = PassThrough

\* C20: when no signup attempt is under way, every auth account created by
\* a signup has a profile row with a role.
C20_EveryAccountHasProfile ==
    signupPhase \in {"idle", "finished"}
        => \A u \in authUsers :
            \E row \in profileRows : row[1] = u /\ row[2] \in {"USER", "EMPLOYEE"}

\* C23: with the feed live (the first stream attached, and so stopped by
\* the switch to privacy mode), privacy mode switched on and off again and
\* the camera granted again leaves the feed live: not simulated, with the
\* second stream attached to the video element.
C23_PrivacyRoundTrip ==
    (nToggles = 2 /\ ~privacy /\ Len(streams) = 2 /\ streams[1] = "stopped")
        => (~isSimulated /\ srcObject = 2 /\ streams[2] = "live")

\* C24: the setup is left for a dashboard only after the consents have been
\* saved: a click on Complete Setup or Sensor-Only Mode whose save is not
\* carried out (no user id yet, or the update fails) does not navigate.
C24_NoNavigationWithoutSave ==
    navigated # "none" => savedConsents.written

\* C25: the first smoothing step is seeded with the input: after the first
\* callback of the gauge the animated score equals the score it was given.
C25_ColdStartSeeded ==
    (gaugeSteps = 1 /\ nScoreChanges = 0) => animatedScore = gaugeScore

\* C26: the trend list is a bounded FIFO: it holds at most TrendKeep + 1 = 26
\* entries, and they are the entries of the most recent ticks in the order
\* of arrival (the entry of the last tick last, each one TickMs after the
\* one before), so that the entry evicted is the oldest.
C26_BoundedFifo ==
    /\ Len(trend) = Min(nTrendTicks, TrendKeep + 1)
    /\ \A i \in 1..Len(trend) :
          trend[i].timestamp = trendNow - TickMs * (Len(trend) - i)

\* C26 witness: more ticks have run than the list holds, and the list is
\* full.
C26_Witness ==
    /\ nTrendTicks > TrendKeep + 2
    /\ Len(trend) = TrendKeep + 1
    /\ trend[Len(trend)].timestamp = trendNow

\* C27: consecutive entries of the trend list carry strictly increasing
\* time values.
C27_TimeStrictlyIncreases ==
    \A i \in 1..(Len(trend) - 1) : trend[i].time < trend[i + 1].time

\* C22: a sign-in attempt that has ended without going to the dashboard
\* leaves no authenticated session.
C22_NoSessionWithoutDashboard ==
    (signinPhase = "finished" /\ signinGoesTo = "none") => ~session

\* C21: no two profile rows carry the same employee id, whatever the
\* interleaving of the registrations.
C21_EmployeeIdUnique ==
    \A row1 \in regRows, row2 \in regRows :
        row1[2] = row2[2] => row1 = row2

=============================================================================
